---------------------------- MODULE Spec2Model ----------------------------
(***************************************************************************)
(* A model of the link indexer plugin (src/src/main.ts, the second, current *)
(* copy of the plugin that starts at line 428): the vault, the presets, the *)
(* global exclusion list, and the report generation with its aggregation    *)
(* map, its sort, its rendering and its awaited file operations.            *)
(*                                                                         *)
(* A string is a sequence of one-character strings, so that lower-casing,   *)
(* prefix and suffix tests, splitting and path normalisation are computed   *)
(* the way the code computes them.                                          *)
(***************************************************************************)
EXTENDS Integers, Sequences, FiniteSets, TLC

VARIABLES settings, globalExcludes, files, folders, runs, notices,
          token, parse, compare,
          commands, presetRefs, objectNames, now, data

\* the host's command registry, the identities of the preset objects of the
\* settings, the names of all preset objects created so far, the clock, and
\* the settings as last saved
registry == <<commands, presetRefs, objectNames, now, data>>

vars ==
  <<settings, globalExcludes, files, folders, runs, notices, token, parse, compare, registry>>

----------------------------------------------------------------------------
(* Bounds of the model.                                                     *)

\* the number of references the free note A.md holds at most
MaxRefs == 2
\* the number of command invocations in one behaviour
MaxRuns == 2
\* the number of characters between the brackets of a parsed reference text
MaxLen == 5
\* the number of presets the settings hold at most
MaxPresets == 2
\* the number of edits made in the settings tab in one behaviour
MaxEdits == 2
\* the number of times a path is rewritten into another way of writing it
MaxRewrites == 2

----------------------------------------------------------------------------
(* Strings.                                                                 *)

Range(s) == {s[i] : i \in DOMAIN s}

Min(a, b) == IF a < b THEN a ELSE b

\* the characters s[a..b] (1-based, inclusive), empty when b < a
Slice(s, a, b) == IF b < a THEN <<>> ELSE SubSeq(s, a, b)

UpperCase == <<"A", "B", "C", "D", "E", "F", "G", "H", "I", "J", "K", "L", "M",
               "N", "O", "P", "Q", "R", "S", "T", "U", "V", "W", "X", "Y", "Z">>

LowerCase == <<"a", "b", "c", "d", "e", "f", "g", "h", "i", "j", "k", "l", "m",
               "n", "o", "p", "q", "r", "s", "t", "u", "v", "w", "x", "y", "z">>

LowerChar(c) ==
  IF \E i \in 1..26 : UpperCase[i] = c
  THEN LowerCase[CHOOSE i \in 1..26 : UpperCase[i] = c]
  ELSE c

\* String.prototype.toLowerCase
toLowerCase(s) == [i \in 1..Len(s) |-> LowerChar(s[i])]

\* String.prototype.startsWith / endsWith
startsWith(s, p) == Len(p) <= Len(s) /\ Slice(s, 1, Len(p)) = p

endsWith(s, p) == Len(p) <= Len(s) /\ Slice(s, Len(s) - Len(p) + 1, Len(s)) = p

\* String.prototype.indexOf for a substring, 1-based; 0 when absent
indexOf(s, p) ==
  LET hits == {i \in 1..(Len(s) - Len(p) + 1) : Slice(s, i, i + Len(p) - 1) = p}
  IN  IF hits = {} THEN 0 ELSE CHOOSE i \in hits : \A j \in hits : i <= j

\* String.prototype.lastIndexOf for a substring, 1-based; 0 when absent
lastIndexOf(s, p) ==
  LET hits == {i \in 1..(Len(s) - Len(p) + 1) : Slice(s, i, i + Len(p) - 1) = p}
  IN  IF hits = {} THEN 0 ELSE CHOOSE i \in hits : \A j \in hits : i >= j

includes(s, p) == indexOf(s, p) # 0

WhiteSpace == {" "}

\* String.prototype.trim
RECURSIVE trimStart(_)
trimStart(s) ==
  IF s # <<>> /\ Head(s) \in WhiteSpace THEN trimStart(Tail(s)) ELSE s

RECURSIVE trimEnd(_)
trimEnd(s) ==
  IF s # <<>> /\ s[Len(s)] \in WhiteSpace THEN trimEnd(Slice(s, 1, Len(s) - 1)) ELSE s

trim(s) == trimEnd(trimStart(s))

\* String.prototype.split on a one-character separator
RECURSIVE split(_, _)
split(s, sep) ==
  LET i == indexOf(s, <<sep>>)
  IN  IF i = 0 THEN <<s>>
      ELSE <<Slice(s, 1, i - 1)>> \o split(Slice(s, i + 1, Len(s)), sep)

\* Array.prototype.join
RECURSIVE join(_, _)
join(parts, sep) ==
  IF parts = <<>> THEN <<>>
  ELSE IF Len(parts) = 1 THEN parts[1]
  ELSE parts[1] \o sep \o join(Tail(parts), sep)

Digits == <<"0", "1", "2", "3", "4", "5", "6", "7", "8", "9">>

DigitValue(c) == (CHOOSE i \in 1..10 : Digits[i] = c) - 1

\* Number to its decimal text, as a template literal prints a count
RECURSIVE NumberToString(_)
NumberToString(n) ==
  IF n < 10 THEN <<Digits[n + 1]>>
  ELSE NumberToString(n \div 10) \o <<Digits[(n % 10) + 1]>>

----------------------------------------------------------------------------
(* The host (obsidian) functions the plugin calls.                          *)

\* normalizePath: runs of slashes and backslashes become one '/', leading
\* and trailing slashes are removed, the empty path becomes "/"
RECURSIVE CollapseSlashes(_)
CollapseSlashes(s) ==
  IF s = <<>> THEN <<>>
  ELSE IF Head(s) \in {"/", "\\"}
       THEN IF Len(s) > 1 /\ s[2] \in {"/", "\\"}
            THEN CollapseSlashes(Tail(s))
            ELSE <<"/">> \o CollapseSlashes(Tail(s))
       ELSE <<Head(s)>> \o CollapseSlashes(Tail(s))

normalizePath(path) ==
  LET c == CollapseSlashes(path)
      a == IF c # <<>> /\ Head(c) = "/" THEN Tail(c) ELSE c
      b == IF a # <<>> /\ a[Len(a)] = "/" THEN Slice(a, 1, Len(a) - 1) ELSE a
  IN  IF b = <<>> THEN <<"/">> ELSE b

\* getLinkpath: the link text without its '#subpath'
getLinkpath(linktext) ==
  LET i == indexOf(linktext, <<"#">>)
  IN  IF i = 0 THEN linktext ELSE Slice(linktext, 1, i - 1)

MdExt == <<".", "m", "d">>

\* TFile.name: the path without its directories
FileName(path) == Slice(path, lastIndexOf(path, <<"/">>) + 1, Len(path))

\* a path or name without the markdown extension
StripMd(s) == IF endsWith(s, MdExt) THEN Slice(s, 1, Len(s) - Len(MdExt)) ELSE s

\* a note of the vault, as getMarkdownFiles and getFileCache present it
TFile(path, links, embeds) ==
  [path |-> path, name |-> FileName(path), links |-> links, embeds |-> embeds]

NoFile == [path |-> <<>>, name |-> <<>>, links |-> <<>>, embeds |-> <<>>]

\* metadataCache.getFirstLinkpathDest: the first note, in the vault's order,
\* whose path matches the link path, else the first whose name matches it,
\* compared without the extension and without regard to letter case
getFirstLinkpathDest(fs, linkpath) ==
  LET want   == toLowerCase(StripMd(linkpath))
      byPath == {i \in 1..Len(fs) : toLowerCase(StripMd(fs[i].path)) = want}
      byName == {i \in 1..Len(fs) : toLowerCase(StripMd(fs[i].name)) = want}
      first(S) == CHOOSE i \in S : \A j \in S : i <= j
  IN  IF linkpath = <<>> THEN NoFile
      ELSE IF byPath # {} THEN fs[first(byPath)]
      ELSE IF byName # {} THEN fs[first(byName)]
      ELSE NoFile

\* metadataCache.fileToLinktext(file, sourcePath, true): the name without the
\* extension when no other note has that name, else the whole path without it
fileToLinktext(fs, file) ==
  IF \E i \in 1..Len(fs) :
       /\ fs[i].path # file.path
       /\ toLowerCase(fs[i].name) = toLowerCase(file.name)
  THEN StripMd(file.path)
  ELSE StripMd(file.name)

----------------------------------------------------------------------------
(* Patterns: the regular expressions and globs a preset can hold.           *)

CountOf(s, c) == Cardinality({i \in 1..Len(s) : s[i] = c})

\* new RegExp(p) throws a SyntaxError on an unbalanced group
RegExpThrows(p) == CountOf(p, "(") # CountOf(p, ")")

\* new RegExp(p).test(name), for patterns made of literal characters, '.',
\* a leading '^' and a trailing '$'
RegExpTest(p, name) ==
  LET anchoredL == p # <<>> /\ Head(p) = "^"
      p1        == IF anchoredL THEN Tail(p) ELSE p
      anchoredR == p1 # <<>> /\ p1[Len(p1)] = "$"
      body      == IF anchoredR THEN Slice(p1, 1, Len(p1) - 1) ELSE p1
      at(i)     == /\ i + Len(body) - 1 <= Len(name)
                   /\ \A k \in 1..Len(body) :
                        body[k] = "." \/ body[k] = name[i + k - 1]
      starts    == IF anchoredL THEN {1} ELSE 1..(Len(name) + 1)
  IN  \E i \in starts :
        /\ at(i)
        /\ anchoredR => i + Len(body) - 1 = Len(name)

\* picomatch.isMatch(path, [g]) for a literal path or a 'dir/**' glob
GlobTest(g, path) ==
  IF endsWith(g, <<"/", "*", "*">>)
  THEN startsWith(path, Slice(g, 1, Len(g) - 2))
  ELSE path = g

----------------------------------------------------------------------------
(* pathEqual and removeDots.                                                *)

\* value.replace(/\\/g, '/')
BackslashesToSlashes(s) == [i \in 1..Len(s) |-> IF s[i] = "\\" THEN "/" ELSE s[i]]

\* the first match of a literal replaced, as replace does without the g flag
ReplaceFirst(s, p, r) ==
  LET i == indexOf(s, p)
  IN  IF i = 0 THEN s
      ELSE Slice(s, 1, i - 1) \o r \o Slice(s, i + Len(p), Len(s))

removeDots(value) ==
  LET a == BackslashesToSlashes(value)
      b == IF startsWith(a, <<".", "/">>) THEN Slice(a, 3, Len(a)) ELSE a
  IN  ReplaceFirst(b, <<"/", ".", "/">>, <<"/">>)

pathEqual(a, b) ==
  \/ a = b
  \/ removeDots(normalizePath(a)) = removeDots(normalizePath(b))

----------------------------------------------------------------------------
(* The reference parser.                                                    *)

\* link.replace(/^\[\[/, '').replace(/\]\]$/, '')
cleanWikiLink(link) ==
  LET a == IF startsWith(link, <<"[", "[">>) THEN Slice(link, 3, Len(link)) ELSE link
  IN  IF endsWith(a, <<"]", "]">>) THEN Slice(a, 1, Len(a) - 2) ELSE a

\* the text the two extractors work on: brackets removed, then a leading '!'
CleanLink(link) ==
  LET c == cleanWikiLink(link)
  IN  IF startsWith(c, <<"!">>) THEN Tail(c) ELSE c

\* extractDisplayName without the split at the alias separator
extractDisplayName_KeepsAlias(link) == CleanLink(link)

extractDisplayName(link) ==
  LET c == CleanLink(link)
  IN  IF includes(c, <<"|">>) THEN trim(split(c, "|")[1]) ELSE c

\* the alias, or Null when the link has none
Null == <<"\\0">>

extractAlias(link) ==
  LET c     == CleanLink(link)
      parts == split(c, "|")
  IN  IF includes(c, <<"|">>) /\ Len(parts) > 1 THEN trim(parts[2]) ELSE Null

\* the value of a result that has not been computed
NotParsed == <<"\\u">>

----------------------------------------------------------------------------
(* Presets and the global exclusion list.                                   *)

\* class UsedLinks, with the defaults its field initialisers give
UsedLinks(name, path) ==
  [name |-> name, path |-> path,
   includeEmbeds |-> TRUE, linkToFiles |-> TRUE,
   nonexistentOnly |-> FALSE, sortAlphabetically |-> FALSE,
   excludeToFilenames |-> <<>>, excludeToGlobs |-> <<>>,
   excludeFromFilenames |-> <<>>, excludeFromGlobs |-> <<>>]

\* the value find returns when no preset has the name
NoPreset == UsedLinks(<<>>, <<>>)

\* a lookup that falls back to the first preset when no preset has the name
getPresetByName_First(presets, name) ==
  LET hits == {i \in 1..Len(presets) : presets[i].name = name}
  IN  IF hits # {} THEN presets[CHOOSE i \in hits : \A j \in hits : i <= j]
      ELSE IF presets = <<>> THEN NoPreset ELSE presets[1]

\* presets.find((r) => r.name === name)
getPresetByName(presets, name) ==
  LET hits == {i \in 1..Len(presets) : presets[i].name = name}
  IN  IF hits = {} THEN NoPreset
      ELSE presets[CHOOSE i \in hits : \A j \in hits : i <= j]

\* the output path without the '.md' appended
OutputPath_NoExtension(path) == normalizePath(path)

\* the output path of a preset: '.md' appended when missing, then normalised
OutputPath(path) ==
  normalizePath(IF endsWith(path, MdExt) THEN path ELSE path \o MdExt)

\* setupCommands: the global exclusion list rebuilt from the presets
setupCommands(presets) == [i \in 1..Len(presets) |-> OutputPath(presets[i].path)]

\* `link-indexer-pnx:used-links:${r.name}`
CommandId(name) ==
  <<"l", "i", "n", "k", "-", "i", "n", "d", "e", "x", "e", "r", "-", "p", "n", "x", ":", "u", "s", "e", "d", "-", "l", "i", "n", "k", "s", ":">> \o name

\* `Used links - ${r.name}`
CommandName(name) == <<"U", "s", "e", "d", " ", "l", "i", "n", "k", "s", " ", "-", " ">> \o name

\* the commands of setupCommands: addCommand for every preset in turn, the
\* callback holding the preset object; a command of the same id is replaced,
\* and no command is ever removed
RECURSIVE AddCommands(_, _, _)
AddCommands(registered, presets, refs) ==
  IF presets = <<>> THEN registered
  ELSE LET n     == Len(presets)
           r     == presets[n]
           added == AddCommands(registered, Slice(presets, 1, n - 1),
                                Slice(refs, 1, n - 1))
       IN  {c \in added : c.id # CommandId(r.name)}
           \cup {[id |-> CommandId(r.name), name |-> CommandName(r.name),
                   preset |-> refs[n]]}

----------------------------------------------------------------------------
(* The path filter.                                                         *)

\* filenamePatterns.some((p) => new RegExp(p).test(f.name)): some stops at
\* the first pattern that matches, and throws at the first invalid pattern
\* it reaches before that
RECURSIVE SomeRegExp(_, _)
SomeRegExp(patterns, name) ==
  IF patterns = <<>> THEN [threw |-> FALSE, value |-> FALSE]
  ELSE IF RegExpThrows(Head(patterns)) THEN [threw |-> TRUE, value |-> FALSE]
  ELSE IF RegExpTest(Head(patterns), name) THEN [threw |-> FALSE, value |-> TRUE]
  ELSE SomeRegExp(Tail(patterns), name)

\* isExcluded without the global exclusion list
isExcluded_NoGlobal(gx, f, filenamePatterns, globPatterns) ==
  LET filenameTest   == SomeRegExp(filenamePatterns, f.name)
      isGlobExcluded == \E i \in 1..Len(globPatterns) :
                          GlobTest(globPatterns[i], f.path)
  IN  IF filenameTest.threw THEN [threw |-> TRUE, value |-> FALSE]
      ELSE [threw |-> FALSE, value |-> filenameTest.value \/ isGlobExcluded]

\* isExcluded with the patterns forgotten
isExcluded_OnlyGlobal(gx, f, filenamePatterns, globPatterns) ==
  [threw |-> FALSE, value |-> \E i \in 1..Len(gx) : pathEqual(gx[i], f.path)]

\* isExcluded: the three tests are evaluated one after the other, then or-ed
isExcluded(gx, f, filenamePatterns, globPatterns) ==
  LET isGloballyExcluded == \E i \in 1..Len(gx) : pathEqual(gx[i], f.path)
      filenameTest       == SomeRegExp(filenamePatterns, f.name)
      isGlobExcluded     == \E i \in 1..Len(globPatterns) :
                              GlobTest(globPatterns[i], f.path)
  IN  IF filenameTest.threw THEN [threw |-> TRUE, value |-> FALSE]
      ELSE [threw |-> FALSE,
            value |-> isGloballyExcluded \/ filenameTest.value \/ isGlobExcluded]

----------------------------------------------------------------------------
(* The aggregation map: a JavaScript object used as a Record.  It is kept   *)
(* as the sequence of its own entries in the order they were created.       *)

\* the index of the own entry with the key, 0 when there is none
OwnIndex(m, key) ==
  IF \E i \in 1..Len(m) : m[i].key = key
  THEN CHOOSE i \in 1..Len(m) : m[i].key = key
  ELSE 0

\* the property names every object literal inherits from Object.prototype
\* that are their own lower-case form
InheritedKeys ==
  { <<"c", "o", "n", "s", "t", "r", "u", "c", "t", "o", "r">>,
    <<"_", "_", "p", "r", "o", "t", "o", "_", "_">> }

\* the decimal value of a digit string
RECURSIVE NumericValue(_)
NumericValue(k) ==
  IF k = <<>> THEN 0
  ELSE 10 * NumericValue(Slice(k, 1, Len(k) - 1)) + DigitValue(k[Len(k)])

\* an integer index key: a canonical decimal numeral (an index is below
\* 2^32 - 1; numerals of up to nine digits, all below it, are told apart here)
IsArrayIndex(k) ==
  /\ k # <<>>
  /\ Len(k) < 10
  /\ \A i \in 1..Len(k) : k[i] \in Range(Digits)
  /\ Len(k) > 1 => k[1] # "0"

\* the collation order of the characters, as localeCompare ranks them:
\* white space, punctuation, digits, letters
Collation ==
  <<" ", "_", "-", "!", ".", "(", ")", "[", "]", "*", "/", "\\", "#", "^", "|", "$">>
  \o Digits \o LowerCase

Rank(c) ==
  IF \E i \in 1..Len(Collation) : Collation[i] = LowerChar(c)
  THEN CHOOSE i \in 1..Len(Collation) : Collation[i] = LowerChar(c)
  ELSE 0

\* String.prototype.localeCompare: negative, zero or positive
RECURSIVE localeCompare(_, _)
localeCompare(a, b) ==
  IF a = <<>> THEN (IF b = <<>> THEN 0 ELSE -1)
  ELSE IF b = <<>> THEN 1
  ELSE IF Rank(Head(a)) # Rank(Head(b))
       THEN (IF Rank(Head(a)) < Rank(Head(b)) THEN -1 ELSE 1)
  ELSE localeCompare(Tail(a), Tail(b))

\* the comparators with the frequency order turned round
Compare_Ascending(mode, a, b) ==
  CASE mode = "alphabetical" ->
         localeCompare(toLowerCase(a.displayName), toLowerCase(b.displayName))
    [] mode = "frequency" -> a.count - b.count
    [] mode = "index" -> NumericValue(a.key) - NumericValue(b.key)

\* the comparators handed to sort: the two of the report, and the numeric
\* order of integer index keys
Compare(mode, a, b) ==
  CASE mode = "alphabetical" ->
         localeCompare(toLowerCase(a.displayName), toLowerCase(b.displayName))
    [] mode = "frequency" -> b.count - a.count
    [] mode = "index" -> NumericValue(a.key) - NumericValue(b.key)

\* Array.prototype.sort, which is stable: x goes after every y that does
\* not compare greater than x
RECURSIVE SortBy(_, _)
SortBy(seq, mode) ==
  IF seq = <<>> THEN <<>>
  ELSE LET n    == Len(seq)
           rest == SortBy(Slice(seq, 1, n - 1), mode)
           x    == seq[n]
           keep == {i \in 1..Len(rest) : Compare(mode, rest[i], x) > 0}
           at   == IF keep = {} THEN Len(rest) + 1
                   ELSE CHOOSE i \in keep : \A j \in keep : i <= j
       IN  Slice(rest, 1, at - 1) \o <<x>> \o Slice(rest, at, Len(rest))

\* Object.entries: the integer index keys in ascending numeric order, then
\* the other keys in the order of their creation
ObjectEntries(m) ==
  LET idx == SelectSeq(m, LAMBDA e : IsArrayIndex(e.key))
      str == SelectSeq(m, LAMBDA e : ~IsArrayIndex(e.key))
  IN  SortBy(idx, "index") \o str

\* the entries left as Object.entries gives them
SortLinks_Unsorted(m, preset) == ObjectEntries(m)

\* the sort of the report (lines 648-658)
SortLinks(m, preset) ==
  SortBy(ObjectEntries(m),
         IF preset.sortAlphabetically THEN "alphabetical" ELSE "frequency")

----------------------------------------------------------------------------
(* grabLinks: one reference folded into the map.                            *)

\* the note a reference of note f resolves to, NoFile when there is none
OriginFile(fs, l) == getFirstLinkpathDest(fs, getLinkpath(l.link))

\* the identity of a reference: the resolved note's path, else the link path
Origin(fs, l) ==
  LET originFile == OriginFile(fs, l)
  IN  IF originFile # NoFile THEN originFile.path ELSE getLinkpath(l.link)

\* l.original || link
OriginalLinkText(l) == IF l.original # <<>> THEN l.original ELSE getLinkpath(l.link)

\* the link of an entry without the brackets
LinkColumn_Bare(preset, rawLink) == rawLink

\* preset.linkToFiles ? `[[${rawLink}]]` : rawLink
LinkColumn(preset, rawLink) ==
  IF preset.linkToFiles THEN <<"[", "[">> \o rawLink \o <<"]", "]">> ELSE rawLink

\* the callback of links.forEach in grabLinks, for one reference of note f:
\* the map after it, and whether it threw
GrabLink(m, fs, gx, l, preset) ==
  LET link             == getLinkpath(l.link)
      originFile       == OriginFile(fs, l)
      excluded         == IF originFile # NoFile /\ ~preset.nonexistentOnly
                          THEN isExcluded(gx, originFile, preset.excludeToFilenames,
                                          preset.excludeToGlobs)
                          ELSE [threw |-> FALSE, value |-> FALSE]
      normalizedOrigin == toLowerCase(Origin(fs, l))
      originalLinkText == OriginalLinkText(l)
      own              == OwnIndex(m, normalizedOrigin)
      rawLink          == IF originFile # NoFile THEN fileToLinktext(fs, originFile)
                          ELSE link
  IN  IF l.link = <<>> THEN [threw |-> FALSE, map |-> m]
      ELSE IF excluded.threw THEN [threw |-> TRUE, map |-> m]
      ELSE IF originFile # NoFile /\ (preset.nonexistentOnly \/ excluded.value)
           THEN [threw |-> FALSE, map |-> m]
      ELSE IF own # 0
           THEN [threw |-> FALSE,
                 map |-> [m EXCEPT ![own].count = @ + 1,
                                   ![own].originalLinks = Append(@, originalLinkText)]]
      ELSE IF normalizedOrigin \in InheritedKeys
           \* the inherited property is truthy and has no originalLinks: push throws
           THEN [threw |-> TRUE, map |-> m]
      ELSE [threw |-> FALSE,
            map |-> Append(m, [key |-> normalizedOrigin,
                               count |-> 1,
                               link |-> LinkColumn(preset, rawLink),
                               originalLinks |-> <<originalLinkText>>,
                               displayName |-> extractDisplayName(originalLinkText)])]

----------------------------------------------------------------------------
(* The report renderer.                                                     *)

\* the connected terms with the alias that equals the display name kept
RECURSIVE ConnectedTerms_KeepsDisplayName(_, _)
ConnectedTerms_KeepsDisplayName(originalLinks, mainLink) ==
  IF originalLinks = <<>> THEN <<>>
  ELSE LET n     == Len(originalLinks)
           terms == ConnectedTerms_KeepsDisplayName(Slice(originalLinks, 1, n - 1),
                                                    mainLink)
           alias == extractAlias(originalLinks[n])
       IN  IF alias # Null /\ alias # <<>> /\ alias \notin Range(terms)
           THEN Append(terms, alias)
           ELSE terms

\* the connected terms of an entry: a Set of the aliases of its original
\* link texts, in the order they were first added
RECURSIVE ConnectedTerms(_, _)
ConnectedTerms(originalLinks, mainLink) ==
  IF originalLinks = <<>> THEN <<>>
  ELSE LET n     == Len(originalLinks)
           terms == ConnectedTerms(Slice(originalLinks, 1, n - 1), mainLink)
           alias == extractAlias(originalLinks[n])
       IN  IF alias # Null /\ alias # <<>> /\ alias # mainLink
              /\ alias \notin Range(terms)
           THEN Append(terms, alias)
           ELSE terms

\* one table row
Row(node) ==
  <<"|", " ">> \o NumberToString(node.count) \o <<" ", "|", " ">> \o node.link
  \o <<" ", "|", " ">>
  \o join(ConnectedTerms(node.originalLinks, node.displayName), <<",", " ">>)
  \o <<" ", "|", "\n">>

Header ==
  <<"|", " ", "C", "o", "u", "n", "t", " ", "|", " ", "L", "i", "n", "k", " ", "|",
    " ", "C", "o", "n", "n", "e", "c", "t", "e", "d", " ", "T", "e", "r", "m", "s",
    " ", "|", "\n",
    "|", "-", "-", "-", "-", "-", "-", "-", "|", "-", "-", "-", "-", "-", "-", "|",
    "-", "-", "-", "-", "-", "-", "-", "-", "-", "-", "-", "-", "-", "-", "-", "-",
    "|", "\n">>

RECURSIVE Rows(_)
Rows(sortedLinks) ==
  IF sortedLinks = <<>> THEN <<>> ELSE Row(Head(sortedLinks)) \o Rows(Tail(sortedLinks))

\* the content of the report
Content(sortedLinks) == Header \o Rows(sortedLinks)

----------------------------------------------------------------------------
(* The host's view of a written report: the notes' link cache is rebuilt    *)
(* from the text, every [[...]] token being one link.                       *)

RECURSIVE ParseLinks(_)
ParseLinks(text) ==
  LET open == indexOf(text, <<"[", "[">>)
      rest == Slice(text, open + 2, Len(text))
      shut == indexOf(rest, <<"]", "]">>)
      body == Slice(rest, 1, shut - 1)
  IN  IF open = 0 \/ shut = 0 THEN <<>>
      ELSE <<[link |-> split(body, "|")[1],
              original |-> <<"[", "[">> \o body \o <<"]", "]">>]>>
           \o ParseLinks(Slice(rest, shut + 2, Len(rest)))

\* the index of the note with the path in the vault, 0 when there is none
FileIndex(fs, path) ==
  IF \E i \in 1..Len(fs) : fs[i].path = path
  THEN CHOOSE i \in 1..Len(fs) : fs[i].path = path
  ELSE 0

\* the vault after adapter.write or vault.create of a report
WithReport(fs, path, content) ==
  LET i    == FileIndex(fs, path)
      note == TFile(path, ParseLinks(content), <<>>)
  IN  IF i = 0 THEN Append(fs, note) ELSE [fs EXCEPT ![i] = note]

\* outputPath.substring(0, outputPath.lastIndexOf('/'))
DirPath(outputPath) == Slice(outputPath, 1, lastIndexOf(outputPath, <<"/">>) - 1)

----------------------------------------------------------------------------
(* The inputs: the notes of the vault, their references, the presets.       *)

Wiki(body) == <<"[", "[">> \o body \o <<"]", "]">>

\* the text of an embed, as the cache holds it in 'original'
Embed(body) == <<"!">> \o Wiki(body)

\* a ReferenceCache entry of a wiki link: its link part and its whole text
Ref(link, original) == [link |-> link, original |-> original]

PathA == <<"A", ".", "m", "d">>
PathB == <<"B", ".", "m", "d">>
PathC == <<"C", ".", "m", "d">>
PathDraft == <<"D", "r", "a", "f", "t", "-", "1", ".", "m", "d">>
PathPrivate == <<"P", "r", "i", "v", "a", "t", "e", "/", "x", ".", "m", "d">>
PathIndex == <<"I", "n", "d", "e", "x", ".", "m", "d">>

RefB == Ref(<<"B">>, Wiki(<<"B">>))
RefC == Ref(<<"C">>, Wiki(<<"C">>))
RefBee == Ref(<<"b", "#", "h">>, Wiki(<<"b", "#", "h", "|", "b", "e", "e">>))
RefX == Ref(<<"X">>, Wiki(<<"X">>))
Refx == Ref(<<"x", "x">>, Wiki(<<"x", "x">>))
RefXX == Ref(<<"X", "x">>, Wiki(<<"X", "x">>))
Ref1 == Ref(<<"1">>, Wiki(<<"1">>))
Ref2 == Ref(<<"2">>, Wiki(<<"2">>))
RefConstructor ==
  Ref(<<"c", "o", "n", "s", "t", "r", "u", "c", "t", "o", "r">>,
      Wiki(<<"c", "o", "n", "s", "t", "r", "u", "c", "t", "o", "r">>))
RefIndex == Ref(<<"I", "n", "d", "e", "x">>, Wiki(<<"I", "n", "d", "e", "x">>))
RefPrivate ==
  Ref(<<"P", "r", "i", "v", "a", "t", "e", "/", "x">>,
      Wiki(<<"P", "r", "i", "v", "a", "t", "e", "/", "x">>))
EmbedX == Ref(<<"X">>, Embed(<<"X">>))
\* B under an alias that is its own name, and under an empty alias
RefBB == Ref(<<"B">>, Wiki(<<"B", "|", "B">>))
RefBEmpty == Ref(<<"B">>, Wiki(<<"B", "|">>))

\* the references note A.md may hold
Tokens ==
  {RefB, RefBee, RefBB, RefBEmpty, Refx, RefXX, Ref1, Ref2, RefConstructor, RefIndex,
   RefPrivate}

RECURSIVE SeqsUpTo(_, _)
SeqsUpTo(S, n) ==
  IF n = 0 THEN {<<>>}
  ELSE LET shorter == SeqsUpTo(S, n - 1)
       IN  shorter \cup {Append(q, x) : q \in {t \in shorter : Len(t) = n - 1}, x \in S}

\* the vaults: A.md holds any references, the other notes are fixed; the
\* report note may exist already, with a link of its own
Vaults ==
  {<<TFile(PathA, links, <<>>)>>
   \o <<TFile(PathDraft, <<RefB>>, <<>>),
        TFile(PathB, <<RefXX>>, <<EmbedX>>),
        TFile(PathPrivate, <<>>, <<>>)>>
   \o idx :
     links \in SeqsUpTo(Tokens, MaxRefs),
     idx \in {<<>>, <<TFile(PathIndex, <<RefB>>, <<>>)>>}}

\* the vault of the read-me: A links to B and C, B to C, C to B and to X
ScenarioVault ==
  <<TFile(PathA, <<RefB, RefC>>, <<>>),
    TFile(PathB, <<RefC>>, <<>>),
    TFile(PathC, <<RefB, RefX>>, <<>>)>>

PresetName == <<"1">>
IndexPath == <<"I", "n", "d", "e", "x">>
FolderPath == <<"o", "u", "t", "/", "I", "n", "d", "e", "x">>
DraftPattern == <<"^", "D", "r", "a", "f", "t">>
InvalidPattern == <<"(">>
PrivateGlob == <<"P", "r", "i", "v", "a", "t", "e", "/", "*", "*">>

\* the presets: every setting of the four toggles, and each filter alone
Presets ==
  {[UsedLinks(PresetName, IndexPath) EXCEPT
      !.includeEmbeds = e, !.linkToFiles = l,
      !.nonexistentOnly = n, !.sortAlphabetically = a] :
     e \in BOOLEAN, l \in BOOLEAN, n \in BOOLEAN, a \in BOOLEAN}
  \cup
  {[UsedLinks(PresetName, IndexPath) EXCEPT !.excludeFromFilenames = <<DraftPattern>>],
   [UsedLinks(PresetName, IndexPath) EXCEPT !.excludeFromFilenames = <<InvalidPattern>>],
   [UsedLinks(PresetName, IndexPath) EXCEPT !.excludeFromGlobs = <<PrivateGlob>>],
   [UsedLinks(PresetName, IndexPath) EXCEPT !.excludeToFilenames = <<InvalidPattern>>],
   [UsedLinks(PresetName, IndexPath) EXCEPT
      !.excludeFromFilenames = <<DraftPattern, InvalidPattern>>],
   [UsedLinks(PresetName, IndexPath) EXCEPT !.excludeToFilenames = <<<<"^", "x">>>>],
   [UsedLinks(PresetName, IndexPath) EXCEPT !.excludeToGlobs = <<PrivateGlob>>],
   UsedLinks(PresetName, FolderPath)}

----------------------------------------------------------------------------
(* The state machine.                                                       *)

Runs == 1..MaxRuns

\* no reference text has been parsed
Unparsed == [displayName |-> NotParsed, alias |-> NotParsed]

\* pathEqual has not been called
NotCompared == [a |-> <<>>, b |-> <<>>, ab |-> <<>>, ba |-> <<>>]

\* a report generation that has not been invoked
IdleRun ==
  [pc |-> "idle", command |-> <<>>, preset |-> NoPreset, outputPath |-> <<>>, fi |-> 1, ri |-> 1,
   uniqueLinks |-> <<>>, processedCount |-> 0, skippedCount |-> 0, errorCount |-> 0,
   sortedLinks |-> <<>>, content |-> <<>>, exists |-> FALSE]

\* the time of the first event after the plugin has loaded
StartTime == 2

\* onload, for the settings that were read: one object per preset, and the
\* commands setupCommands adds
Loaded ==
  /\ presetRefs = [i \in 1..Len(settings) |-> i]
  /\ objectNames = [i \in 1..Len(settings) |-> settings[i].name]
  /\ commands = AddCommands({}, settings, presetRefs)
  /\ now = StartTime
  /\ data = settings

\* onload: the settings are loaded and setupCommands has run
InitWith(vaults, presets) ==
  /\ files \in vaults
  /\ \E p \in presets : settings = <<p>>
  /\ globalExcludes = setupCommands(settings)
  /\ folders = {}
  /\ runs = [r \in Runs |-> IdleRun]
  /\ notices = <<>>
  /\ token = <<>>
  /\ parse = Unparsed
  /\ compare = NotCompared
  /\ Loaded

Init == InitWith(Vaults \cup {ScenarioVault}, Presets)

\* a run is inside the synchronous scan of generateAllUsedLinksIndex
Scanning(r) == runs[r].pc \in {"file", "links", "embeds"}

\* the continuation of an await of run r can run: no other call is inside
\* its synchronous scan
Resumes(r) == \A q \in Runs \ {r} : ~Scanning(q)

\* the callback of a registered command: the preset is looked up by the name
\* the command's preset object has now, and the scan starts (lines 522-525,
\* 582-607)
Callback(r) ==
  /\ runs[r].pc = "idle"
  /\ \E c \in commands :
       LET preset == getPresetByName(settings, objectNames[c.preset])
       IN  IF preset = NoPreset
           THEN /\ runs' = [runs EXCEPT ![r].pc = "done", ![r].command = c.id]
                /\ notices' = Append(notices, "Preset not found")
           ELSE /\ runs' = [runs EXCEPT ![r] =
                             [IdleRun EXCEPT !.pc = "file", !.command = c.id,
                                             !.preset = preset,
                                             !.outputPath = OutputPath(preset.path)]]
                /\ UNCHANGED notices
  /\ UNCHANGED <<settings, globalExcludes, files, folders, token, parse, compare, registry>>

\* a command is invoked when the calls before it have returned
Invoke(r) ==
  /\ \A q \in Runs : q < r => runs[q].pc = "done"
  /\ Callback(r)

\* the start of one iteration of the loop over the notes (lines 609-628)
BeginFile(r) ==
  /\ runs[r].pc = "file"
  /\ runs[r].fi <= Len(files)
  /\ LET f      == files[runs[r].fi]
         preset == runs[r].preset
         ex     == isExcluded(globalExcludes, f, preset.excludeFromFilenames,
                              preset.excludeFromGlobs)
     IN  runs' =
           IF f.path = runs[r].outputPath
           THEN [runs EXCEPT ![r].skippedCount = @ + 1, ![r].fi = @ + 1]
           ELSE IF ex.threw
           THEN [runs EXCEPT ![r].errorCount = @ + 1, ![r].fi = @ + 1]
           ELSE IF ex.value
           THEN [runs EXCEPT ![r].skippedCount = @ + 1, ![r].fi = @ + 1]
           ELSE [runs EXCEPT ![r].pc = "links", ![r].ri = 1]
  /\ UNCHANGED <<settings, globalExcludes, files, folders, notices, token, parse, compare, registry>>

\* grabLinks over fileCache.links, the embeds following whatever the preset says
GrabLinks_AlwaysEmbeds(r) ==
  /\ runs[r].pc = "links"
  /\ LET f == files[runs[r].fi]
         g == GrabLink(runs[r].uniqueLinks, files, globalExcludes,
                       f.links[runs[r].ri], runs[r].preset)
     IN  runs' =
           IF runs[r].ri > Len(f.links)
           THEN [runs EXCEPT ![r].pc = "embeds", ![r].ri = 1]
           ELSE IF g.threw
           THEN [runs EXCEPT ![r].pc = "file", ![r].fi = @ + 1, ![r].errorCount = @ + 1]
           ELSE [runs EXCEPT ![r].uniqueLinks = g.map, ![r].ri = @ + 1]
  /\ UNCHANGED <<settings, globalExcludes, files, folders, notices, token, parse, compare, registry>>

\* grabLinks over fileCache.links: one reference, or the end of the list
\* (lines 630-632, 751-783)
GrabLinks(r) ==
  /\ runs[r].pc = "links"
  /\ LET f == files[runs[r].fi]
         g == GrabLink(runs[r].uniqueLinks, files, globalExcludes,
                       f.links[runs[r].ri], runs[r].preset)
     IN  runs' =
           IF runs[r].ri > Len(f.links)
           THEN IF runs[r].preset.includeEmbeds
                THEN [runs EXCEPT ![r].pc = "embeds", ![r].ri = 1]
                ELSE [runs EXCEPT ![r].pc = "file", ![r].fi = @ + 1,
                                  ![r].processedCount = @ + 1]
           ELSE IF g.threw
           THEN [runs EXCEPT ![r].pc = "file", ![r].fi = @ + 1, ![r].errorCount = @ + 1]
           ELSE [runs EXCEPT ![r].uniqueLinks = g.map, ![r].ri = @ + 1]
  /\ UNCHANGED <<settings, globalExcludes, files, folders, notices, token, parse, compare, registry>>

\* grabLinks over fileCache.embeds (lines 634-638)
GrabEmbeds(r) ==
  /\ runs[r].pc = "embeds"
  /\ LET f == files[runs[r].fi]
         g == GrabLink(runs[r].uniqueLinks, files, globalExcludes,
                       f.embeds[runs[r].ri], runs[r].preset)
     IN  runs' =
           IF runs[r].ri > Len(f.embeds)
           THEN [runs EXCEPT ![r].pc = "file", ![r].fi = @ + 1,
                             ![r].processedCount = @ + 1]
           ELSE IF g.threw
           THEN [runs EXCEPT ![r].pc = "file", ![r].fi = @ + 1, ![r].errorCount = @ + 1]
           ELSE [runs EXCEPT ![r].uniqueLinks = g.map, ![r].ri = @ + 1]
  /\ UNCHANGED <<settings, globalExcludes, files, folders, notices, token, parse, compare, registry>>

\* after the loop: the entries are sorted, the table is built, '.md' is
\* appended to the output path once more, and the existence of the output
\* file is asked for (lines 645-695)
Render(r) ==
  /\ runs[r].pc = "file"
  /\ runs[r].fi > Len(files)
  /\ LET sortedLinks == SortLinks(runs[r].uniqueLinks, runs[r].preset)
     IN  runs' = [runs EXCEPT
                    ![r].sortedLinks = sortedLinks,
                    ![r].content = Content(sortedLinks),
                    ![r].outputPath = IF endsWith(@, MdExt) THEN @ ELSE @ \o MdExt,
                    ![r].pc = "exists"]
  /\ UNCHANGED <<settings, globalExcludes, files, folders, notices, token, parse, compare, registry>>

\* adapter.exists(outputPath) answers (lines 695-709)
ExistsCheck(r) ==
  /\ runs[r].pc = "exists"
  /\ Resumes(r)
  /\ LET exists == FileIndex(files, runs[r].outputPath) # 0
         dirPath == DirPath(runs[r].outputPath)
     IN  runs' = [runs EXCEPT
                    ![r].exists = exists,
                    ![r].pc = IF exists THEN "write"
                              ELSE IF dirPath # <<>> /\ dirPath # runs[r].outputPath
                                   THEN "dirExists"
                                   ELSE "create"]
  /\ UNCHANGED <<settings, globalExcludes, files, folders, notices, token, parse, compare, registry>>

\* adapter.write(outputPath, content) completes (lines 700-702)
WriteFile(r) ==
  /\ runs[r].pc = "write"
  /\ Resumes(r)
  /\ files' = WithReport(files, runs[r].outputPath, runs[r].content)
  /\ notices' = Append(notices, "Updated index")
  /\ runs' = [runs EXCEPT ![r].pc = "final"]
  /\ UNCHANGED <<settings, globalExcludes, folders, token, parse, compare, registry>>

\* adapter.exists(dirPath) answers (lines 709-713)
DirExists(r) ==
  /\ runs[r].pc = "dirExists"
  /\ Resumes(r)
  /\ runs' = [runs EXCEPT
                ![r].pc = IF DirPath(runs[r].outputPath) \in folders
                          THEN "create" ELSE "createFolder"]
  /\ UNCHANGED <<settings, globalExcludes, files, folders, notices, token, parse, compare, registry>>

\* vault.createFolder(dirPath) completes, or rejects because the folder is
\* there by now (lines 712-720, 733-741)
CreateFolder(r) ==
  /\ runs[r].pc = "createFolder"
  /\ Resumes(r)
  /\ IF DirPath(runs[r].outputPath) \in folders
     THEN /\ notices' = notices \o <<"Error: Could not create directory",
                                     "Error writing to file", "Error generating index">>
          /\ runs' = [runs EXCEPT ![r].pc = "done"]
          /\ UNCHANGED folders
     ELSE /\ folders' = folders \cup {DirPath(runs[r].outputPath)}
          /\ runs' = [runs EXCEPT ![r].pc = "create"]
          /\ UNCHANGED notices
  /\ UNCHANGED <<settings, globalExcludes, files, token, parse, compare, registry>>

\* vault.create(outputPath, content) completes, or rejects because the file
\* is there by now (lines 724-726, 733-741)
CreateFile(r) ==
  /\ runs[r].pc = "create"
  /\ Resumes(r)
  /\ IF FileIndex(files, runs[r].outputPath) # 0
     THEN /\ notices' = notices \o <<"Error writing to file", "Error generating index">>
          /\ runs' = [runs EXCEPT ![r].pc = "done"]
          /\ UNCHANGED files
     ELSE /\ files' = WithReport(files, runs[r].outputPath, runs[r].content)
          /\ notices' = Append(notices, "Created new index")
          /\ runs' = [runs EXCEPT ![r].pc = "final"]
  /\ UNCHANGED <<settings, globalExcludes, folders, token, parse, compare, registry>>

\* the final adapter.exists answers and the call returns (lines 729-731)
FinalCheck(r) ==
  /\ runs[r].pc = "final"
  /\ Resumes(r)
  /\ runs' = [runs EXCEPT ![r].pc = "done"]
  /\ UNCHANGED <<settings, globalExcludes, files, folders, notices, token, parse, compare, registry>>

Next ==
  \E r \in Runs :
    \/ Invoke(r)
    \/ BeginFile(r)
    \/ GrabLinks(r)
    \/ GrabEmbeds(r)
    \/ Render(r)
    \/ ExistsCheck(r)
    \/ WriteFile(r)
    \/ DirExists(r)
    \/ CreateFolder(r)
    \/ CreateFile(r)
    \/ FinalCheck(r)

Spec == Init /\ [][Next]_vars

----------------------------------------------------------------------------
(* The reference parser on its own: a reference text is drawn, and          *)
(* extractDisplayName and extractAlias are applied to it.                   *)

\* the characters of the parsed reference texts
Alphabet == {"T", "a", "b", "|", " ", "!"}

\* the reference texts: [[body]] and ![[body]] for every body over the
\* alphabet
ReferenceTexts ==
  {Wiki(body) : body \in SeqsUpTo(Alphabet, MaxLen)}
  \cup {Embed(body) : body \in SeqsUpTo(Alphabet, MaxLen)}

ParserInit ==
  /\ token \in ReferenceTexts
  /\ parse = Unparsed
  /\ compare = NotCompared
  /\ files = <<>>
  /\ settings = <<>>
  /\ globalExcludes = setupCommands(settings)
  /\ folders = {}
  /\ runs = [r \in Runs |-> IdleRun]
  /\ notices = <<>>
  /\ Loaded

\* const displayName = this.extractDisplayName(originalLinkText) (line 768)
ExtractDisplayName ==
  /\ parse.displayName = NotParsed
  /\ parse' = [parse EXCEPT !.displayName = extractDisplayName(token)]
  /\ UNCHANGED <<settings, globalExcludes, files, folders, runs, notices, token, compare, registry>>

\* const alias = this.extractAlias(linkText) (line 673)
ExtractAlias ==
  /\ parse.alias = NotParsed
  /\ parse' = [parse EXCEPT !.alias = extractAlias(token)]
  /\ UNCHANGED <<settings, globalExcludes, files, folders, runs, notices, token, compare, registry>>

ParserNext == ExtractDisplayName \/ ExtractAlias

ParserSpec == ParserInit /\ [][ParserNext]_vars

----------------------------------------------------------------------------
(* pathEqual on its own: two paths are drawn, and pathEqual is called on    *)
(* them in either order.                                                    *)

\* the paths that are written in one way only
BasePaths ==
  {<<"a">>, <<"a", "/", "b">>, <<"A", "/", "b">>, <<"a", "/", "b", "/", "c">>}

\* the places of the separators of a path
Slashes(p) == {i \in 1..Len(p) : p[i] = "/"}

\* the path with every '/' written as a backslash
Backslashed(p) == [i \in 1..Len(p) |-> IF p[i] = "/" THEN "\\" ELSE p[i]]

\* the path with './' in front
DotSlashed(p) == <<".", "/">> \o p

\* the path with the separator at place i written as '/./'
DotInserted(p, i) == Slice(p, 1, i) \o <<".", "/">> \o Slice(p, i + 1, Len(p))

\* the other ways of writing a path that are one step away
Rewrites(p) ==
  {Backslashed(p), DotSlashed(p)} \cup {DotInserted(p, i) : i \in Slashes(p)}

\* the ways of writing a path that are at most n steps away
RECURSIVE Rewritten(_, _)
Rewritten(p, n) ==
  IF n = 0 THEN {p}
  ELSE LET nearer == Rewritten(p, n - 1)
       IN  nearer \cup UNION {Rewrites(q) : q \in nearer}

\* the paths pathEqual is called on
Paths == UNION {Rewritten(p, MaxRewrites) : p \in BasePaths}

PathInit ==
  /\ \E p \in Paths, q \in Paths : compare = [NotCompared EXCEPT !.a = p, !.b = q]
  /\ token = <<>>
  /\ parse = Unparsed
  /\ files = <<>>
  /\ settings = <<>>
  /\ globalExcludes = setupCommands(settings)
  /\ folders = {}
  /\ runs = [r \in Runs |-> IdleRun]
  /\ notices = <<>>
  /\ Loaded

\* pathEqual(a, b) (line 745)
PathEqualAB ==
  /\ compare.a # <<>>
  /\ compare.ab = <<>>
  /\ compare' = [compare EXCEPT !.ab = <<pathEqual(compare.a, compare.b)>>]
  /\ UNCHANGED <<settings, globalExcludes, files, folders, runs, notices, token, parse, registry>>

\* pathEqual(b, a)
PathEqualBA ==
  /\ compare.a # <<>>
  /\ compare.ba = <<>>
  /\ compare' = [compare EXCEPT !.ba = <<pathEqual(compare.b, compare.a)>>]
  /\ UNCHANGED <<settings, globalExcludes, files, folders, runs, notices, token, parse, registry>>

PathNext == PathEqualAB \/ PathEqualBA

PathSpec == PathInit /\ [][PathNext]_vars

----------------------------------------------------------------------------
(* The settings tab: every handler changes the settings and calls saveData, *)
(* which saves them and calls setupCommands.  A handler runs between the    *)
(* events of the host, never inside the synchronous scan of a run, and the  *)
(* clock has moved on when the next one runs.                               *)

PathOther == <<"O", "t", "h", "e", "r", ".", "m", "d">>
RefA == Ref(<<"A">>, Wiki(<<"A">>))
RefOther == Ref(<<"O", "t", "h", "e", "r">>, Wiki(<<"O", "t", "h", "e", "r">>))

\* a vault with the report notes of two presets, each holding a link, and a
\* note that links to both
SettingsVault ==
  <<TFile(PathA, <<RefB, RefIndex, RefOther>>, <<>>),
    TFile(PathB, <<>>, <<>>),
    TFile(PathIndex, <<RefB>>, <<>>),
    TFile(PathOther, <<RefA>>, <<>>)>>

OtherName == <<"0">>
OtherPath == <<"O", "t", "h", "e", "r">>

\* the values typed into the name field, the path field and the text areas
TypedNames == {PresetName, OtherName}
TypedPaths == {OtherPath, FolderPath}
TypedPatterns == {<<>>, <<"^", "B", "\n">>}

\* `used_links${this.name}`
DefaultPath(name) == <<"u", "s", "e", "d", "_", "l", "i", "n", "k", "s">> \o name

\* new UsedLinks(): the name is Date.now().toString()
NewUsedLinks == UsedLinks(NumberToString(now), DefaultPath(NumberToString(now)))

\* value.split('\n').filter((v) => v)
PatternLines(value) == SelectSeq(split(value, "\n"), LAMBDA v : v # <<>>)

SettingsInit ==
  /\ files = SettingsVault
  /\ settings \in {<<UsedLinks(PresetName, IndexPath)>>,
                   <<UsedLinks(PresetName, IndexPath), UsedLinks(OtherName, OtherPath)>>}
  /\ globalExcludes = setupCommands(settings)
  /\ folders = {}
  /\ runs = [r \in Runs |-> IdleRun]
  /\ notices = <<>>
  /\ token = <<>>
  /\ parse = Unparsed
  /\ compare = NotCompared
  /\ Loaded

\* a handler of the settings tab can run
CanEdit ==
  /\ \A r \in Runs : ~Scanning(r)
  /\ now < StartTime + MaxEdits

\* saveData that saves the settings and does not call setupCommands
SaveData_WithoutSetup(usedLinks, refs) ==
  /\ settings' = usedLinks
  /\ presetRefs' = refs
  /\ data' = usedLinks
  /\ now' = now + 1
  /\ UNCHANGED <<globalExcludes, commands, files, folders, runs, notices, token, parse, compare>>

\* saveData of the settings tab: plugin.saveData(plugin.settings), then
\* plugin.setupCommands() (lines 1005-1010)
SaveData(usedLinks, refs) ==
  /\ settings' = usedLinks
  /\ presetRefs' = refs
  /\ data' = usedLinks
  /\ globalExcludes' = setupCommands(usedLinks)
  /\ commands' = AddCommands(commands, usedLinks, refs)
  /\ now' = now + 1
  /\ UNCHANGED <<files, folders, runs, notices, token, parse, compare>>

\* the 'Add preset' button (lines 994-999)
AddPreset ==
  /\ CanEdit
  /\ Len(settings) < MaxPresets
  /\ objectNames' = Append(objectNames, NewUsedLinks.name)
  /\ SaveData(Append(settings, NewUsedLinks),
              Append(presetRefs, Len(objectNames) + 1))

\* the 'Delete preset' button of preset i: the first preset of that name is
\* spliced out (lines 982-990)
DeletePreset(i) ==
  /\ CanEdit
  /\ LET index == CHOOSE j \in 1..Len(settings) :
                    /\ settings[j].name = settings[i].name
                    /\ \A k \in 1..(j - 1) : settings[k].name # settings[i].name
         splice(q) == Slice(q, 1, index - 1) \o Slice(q, index + 1, Len(q))
     IN  SaveData(splice(settings), splice(presetRefs))
  /\ UNCHANGED objectNames

\* the 'Preset name' field of preset i (lines 848-859)
SetName(i, value) ==
  /\ CanEdit
  /\ objectNames' = [objectNames EXCEPT ![presetRefs[i]] = value]
  /\ SaveData([settings EXCEPT ![i].name = value], presetRefs)

\* the 'All used links' path field of preset i (lines 860-871)
SetPath(i, value) ==
  /\ CanEdit
  /\ SaveData([settings EXCEPT ![i].path = value], presetRefs)
  /\ UNCHANGED objectNames

\* the 'Include embeds' toggle (lines 873-883)
SetIncludeEmbeds(i, value) ==
  /\ CanEdit
  /\ value # settings[i].includeEmbeds
  /\ SaveData([settings EXCEPT ![i].includeEmbeds = value], presetRefs)
  /\ UNCHANGED objectNames

\* the 'Nonexistent files only' toggle (lines 885-895)
SetNonexistentOnly(i, value) ==
  /\ CanEdit
  /\ value # settings[i].nonexistentOnly
  /\ SaveData([settings EXCEPT ![i].nonexistentOnly = value], presetRefs)
  /\ UNCHANGED objectNames

\* the 'Sort alphabetically' toggle (lines 898-908)
SetSortAlphabetically(i, value) ==
  /\ CanEdit
  /\ value # settings[i].sortAlphabetically
  /\ SaveData([settings EXCEPT ![i].sortAlphabetically = value], presetRefs)
  /\ UNCHANGED objectNames

\* the 'Link to files' toggle (lines 922-932)
SetLinkToFiles(i, value) ==
  /\ CanEdit
  /\ value # settings[i].linkToFiles
  /\ SaveData([settings EXCEPT ![i].linkToFiles = value], presetRefs)
  /\ UNCHANGED objectNames

\* the 'Exclude links from files' text area (lines 934-944)
SetExcludeFromFilenames(i, value) ==
  /\ CanEdit
  /\ SaveData([settings EXCEPT ![i].excludeFromFilenames = PatternLines(value)],
              presetRefs)
  /\ UNCHANGED objectNames

\* the 'Exclude links from paths' text area (lines 946-956)
SetExcludeFromGlobs(i, value) ==
  /\ CanEdit
  /\ SaveData([settings EXCEPT ![i].excludeFromGlobs = PatternLines(value)],
              presetRefs)
  /\ UNCHANGED objectNames

\* the 'Exclude links to files' text area (lines 958-968)
SetExcludeToFilenames(i, value) ==
  /\ CanEdit
  /\ SaveData([settings EXCEPT ![i].excludeToFilenames = PatternLines(value)],
              presetRefs)
  /\ UNCHANGED objectNames

\* the 'Exclude links to paths' text area (lines 970-980)
SetExcludeToGlobs(i, value) ==
  /\ CanEdit
  /\ SaveData([settings EXCEPT ![i].excludeToGlobs = PatternLines(value)],
              presetRefs)
  /\ UNCHANGED objectNames

SettingsNext ==
  \/ Next
  \/ AddPreset
  \/ \E i \in 1..Len(settings) : DeletePreset(i)
  \/ \E i \in 1..Len(settings), value \in TypedNames : SetName(i, value)
  \/ \E i \in 1..Len(settings), value \in TypedPaths : SetPath(i, value)
  \/ \E i \in 1..Len(settings), value \in BOOLEAN : SetIncludeEmbeds(i, value)
  \/ \E i \in 1..Len(settings), value \in BOOLEAN : SetNonexistentOnly(i, value)
  \/ \E i \in 1..Len(settings), value \in BOOLEAN : SetSortAlphabetically(i, value)
  \/ \E i \in 1..Len(settings), value \in BOOLEAN : SetLinkToFiles(i, value)
  \/ \E i \in 1..Len(settings), value \in TypedPatterns :
       SetExcludeFromFilenames(i, value)
  \/ \E i \in 1..Len(settings), value \in TypedPatterns : SetExcludeFromGlobs(i, value)
  \/ \E i \in 1..Len(settings), value \in TypedPatterns :
       SetExcludeToFilenames(i, value)
  \/ \E i \in 1..Len(settings), value \in TypedPatterns : SetExcludeToGlobs(i, value)

SettingsSpec == SettingsInit /\ [][SettingsNext]_vars

----------------------------------------------------------------------------
(* Concurrent report generations: a command is invoked while the calls      *)
(* before it wait at an await.  A call runs from its start to its first     *)
(* await without a step of another call in between, so a command is invoked *)
(* only when no call is inside its scan.                                    *)

OtherFolderPath == <<"o", "u", "t", "/", "O", "t", "h", "e", "r">>

\* the vault before any report has been written
NewVault ==
  <<TFile(PathA, <<RefB, RefIndex, RefOther>>, <<>>),
    TFile(PathB, <<RefXX>>, <<EmbedX>>)>>

ConcurrentVaults == {NewVault, SettingsVault}

\* the presets of a name: the output in the root or in a folder, and the
\* settings of two toggles
PresetsOf(name, paths, toggles) ==
  {[UsedLinks(name, path) EXCEPT !.nonexistentOnly = n, !.linkToFiles = l] :
     path \in paths, n \in toggles, l \in toggles}

ConcurrentInit ==
  /\ files \in ConcurrentVaults
  /\ \E p \in PresetsOf(PresetName, {IndexPath, FolderPath}, BOOLEAN),
        q \in PresetsOf(OtherName, {OtherPath, OtherFolderPath}, {FALSE}) :
       settings = <<p, q>>
  /\ globalExcludes = setupCommands(settings)
  /\ folders = {}
  /\ runs = [r \in Runs |-> IdleRun]
  /\ notices = <<>>
  /\ token = <<>>
  /\ parse = Unparsed
  /\ compare = NotCompared
  /\ Loaded

\* a call whose aggregation map is the one the call before it has filled
InvokeConcurrently_SharedMap(r) ==
  /\ \A q \in Runs : ~Scanning(q)
  /\ \A q \in Runs : q < r => runs[q].pc # "idle"
  /\ runs[r].pc = "idle"
  /\ \E c \in commands :
       LET preset == getPresetByName(settings, objectNames[c.preset])
           shared == IF r > 1 THEN runs[r - 1].uniqueLinks ELSE <<>>
       IN  runs' = [runs EXCEPT ![r] =
                      [IdleRun EXCEPT !.pc = "file", !.command = c.id,
                                      !.preset = preset, !.uniqueLinks = shared,
                                      !.outputPath = OutputPath(preset.path)]]
  /\ UNCHANGED <<settings, globalExcludes, files, folders, notices, token, parse, compare, registry>>

\* a command is invoked while other calls may be waiting at an await
InvokeConcurrently(r) ==
  /\ \A q \in Runs : ~Scanning(q)
  /\ \A q \in Runs : q < r => runs[q].pc # "idle"
  /\ Callback(r)

ConcurrentNext ==
  \E r \in Runs :
    \/ InvokeConcurrently(r)
    \/ BeginFile(r)
    \/ GrabLinks(r)
    \/ GrabEmbeds(r)
    \/ Render(r)
    \/ ExistsCheck(r)
    \/ WriteFile(r)
    \/ DirExists(r)
    \/ CreateFolder(r)
    \/ CreateFile(r)
    \/ FinalCheck(r)

ConcurrentSpec == ConcurrentInit /\ [][ConcurrentNext]_vars

----------------------------------------------------------------------------
(* What the specification says, stated on the vault and the preset alone.   *)

\* the configured output path, '.md' appended when missing
ConfiguredOutput(preset) ==
  IF endsWith(preset.path, MdExt) THEN preset.path ELSE preset.path \o MdExt

\* the path filter of the specification: globally excluded, or a filename
\* pattern matches the name, or a glob matches the path
FilterExcludes(f, filenamePatterns, globPatterns) ==
  \/ \E i \in 1..Len(globalExcludes) : pathEqual(globalExcludes[i], f.path)
  \/ \E i \in 1..Len(filenamePatterns) :
       /\ ~RegExpThrows(filenamePatterns[i])
       /\ RegExpTest(filenamePatterns[i], FileName(f.path))
  \/ \E i \in 1..Len(globPatterns) : GlobTest(globPatterns[i], f.path)

\* every filename pattern of the preset is a regular expression
ValidPatterns(preset) ==
  \A p \in Range(preset.excludeFromFilenames) \cup Range(preset.excludeToFilenames) :
    ~RegExpThrows(p)

\* a note that is a source of the report
SourceAdmitted(f, preset) ==
  /\ f.path # ConfiguredOutput(preset)
  /\ ~FilterExcludes(f, preset.excludeFromFilenames, preset.excludeFromGlobs)

\* the references of a note the report looks at
Occurrences(f, preset) ==
  f.links \o (IF preset.includeEmbeds THEN f.embeds ELSE <<>>)

\* the note a reference points to, and whether there is one
Target(l) == getFirstLinkpathDest(files, getLinkpath(l.link))

Resolved(l) == Target(l) # NoFile

\* the target rule: a resolved reference is dropped in nonexistentOnly mode
\* or when the filter excludes its target
TargetDiscards(l, preset) ==
  /\ Resolved(l)
  /\ \/ preset.nonexistentOnly
     \/ FilterExcludes(Target(l), preset.excludeToFilenames, preset.excludeToGlobs)

\* the lower-cased identity of a reference
Identity(l) ==
  toLowerCase(IF Resolved(l) THEN Target(l).path ELSE getLinkpath(l.link))

\* the admitted occurrences: note i, reference j
Admitted(preset) ==
  {<<i, j>> \in (1..Len(files)) \X (1..(2 * (MaxRefs + 1))) :
     /\ SourceAdmitted(files[i], preset)
     /\ j <= Len(Occurrences(files[i], preset))
     /\ ~TargetDiscards(Occurrences(files[i], preset)[j], preset)}

AdmittedIdentity(o, preset) == Identity(Occurrences(files[o[1]], preset)[o[2]])

\* the number of data rows of a report
DataRows(content) == CountOf(content, "\n") - 2

\* the scan of a run is over and nothing has been written by it yet
Scanned(r) == runs[r].pc = "exists"

----------------------------------------------------------------------------
(* C1: after the scan, the report has one data row per distinct lower-cased *)
(* identity among the admitted references.  Stated for the presets whose    *)
(* filename patterns are all valid regular expressions.                     *)
C1_OneRowPerIdentity ==
  \A r \in Runs :
    Scanned(r) /\ ValidPatterns(runs[r].preset) =>
      /\ DataRows(runs[r].content)
           = Cardinality({AdmittedIdentity(o, runs[r].preset) :
                            o \in Admitted(runs[r].preset)})
      /\ \A i, j \in 1..Len(runs[r].uniqueLinks) :
           runs[r].uniqueLinks[i].key = runs[r].uniqueLinks[j].key => i = j

(* C2: after the scan, every entry's count is at least 1 and is the number  *)
(* of admitted occurrences with the entry's key, and every admitted         *)
(* occurrence has its entry.  Stated for presets with valid patterns.       *)
C2_CountIsOccurrences ==
  \A r \in Runs :
    Scanned(r) /\ ValidPatterns(runs[r].preset) =>
      LET preset == runs[r].preset
          m      == runs[r].uniqueLinks
      IN  /\ \A i \in 1..Len(m) :
               /\ m[i].count >= 1
               /\ m[i].count
                    = Cardinality({o \in Admitted(preset) :
                                     AdmittedIdentity(o, preset) = m[i].key})
          /\ \A o \in Admitted(preset) :
               \E i \in 1..Len(m) : m[i].key = AdmittedIdentity(o, preset)

\* run r is about to fold a reference: the note and the reference
Folding(r) ==
  \/ runs[r].pc = "links" /\ runs[r].ri <= Len(files[runs[r].fi].links)
  \/ runs[r].pc = "embeds" /\ runs[r].ri <= Len(files[runs[r].fi].embeds)

CurrentFile(r) == files[runs[r].fi]

CurrentRef(r) ==
  IF runs[r].pc = "links" THEN CurrentFile(r).links[runs[r].ri]
  ELSE CurrentFile(r).embeds[runs[r].ri]

\* the step taken is run r folding its current reference
Folds(r) == Folding(r) /\ runs'[r] # runs[r]

(* C3: the note at the preset's configured output path is never a source of *)
(* the report, and folding a reference that resolves to that note leaves    *)
(* the map as it is.                                                        *)
C3_SelfExclusion ==
  [][\A r \in Runs :
       Folds(r) =>
         /\ CurrentFile(r).path # ConfiguredOutput(runs[r].preset)
         /\ (/\ Resolved(CurrentRef(r))
             /\ Target(CurrentRef(r)).path = ConfiguredOutput(runs[r].preset))
            => runs'[r].uniqueLinks = runs[r].uniqueLinks]_vars

\* a run has gone past the existing report note, which has a link of its
\* own, and past a reference of another note that resolves to the report note
C3_Witness ==
  \E r \in Runs, i \in 1..Len(files) :
    /\ runs[r].pc = "exists"
    /\ runs[r].errorCount = 0
    /\ files[i].path = ConfiguredOutput(runs[r].preset)
    /\ files[i].links # <<>>
    /\ \E k \in 1..Len(files) :
         /\ k # i
         /\ SourceAdmitted(files[k], runs[r].preset)
         /\ \E j \in 1..Len(files[k].links) :
              /\ Resolved(files[k].links[j])
              /\ Target(files[k].links[j]).path = files[i].path

\* runs q and r, one after the other for the same preset, have both written
\* their report
WroteTwice(q, r) ==
  /\ q < r
  /\ runs[q].pc = "done" /\ runs[r].pc = "done"
  /\ runs[q].preset = runs[r].preset
  /\ Len(notices) = r
  /\ \A i \in 1..Len(notices) : notices[i] \in {"Updated index", "Created new index"}

(* C4, as claimed: two generations in succession for the same preset, with  *)
(* nothing changed between them but the output file the first one wrote,    *)
(* write the same content.                                                  *)
C4_Idempotent ==
  \A q, r \in Runs :
    WroteTwice(q, r) /\ r = q + 1 => runs[r].content = runs[q].content

(* C4, amended: when the output file exists before the first of the two     *)
(* generations, so that the first one only replaces its content, the second *)
(* writes the same content as the first.                                    *)
C4_IdempotentOnExistingFile ==
  \A q, r \in Runs :
    WroteTwice(q, r) /\ r = q + 1 /\ runs[q].exists =>
      runs[r].content = runs[q].content

\* two generations have rewritten an existing report that has data rows,
\* written with links to the notes
C4_Witness ==
  /\ WroteTwice(1, 2)
  /\ runs[1].exists
  /\ runs[1].preset.linkToFiles
  /\ DataRows(runs[1].content) >= 2

\* the sort and the table of run r are made
Rendered(r) ==
  runs[r].pc \in {"exists", "write", "dirExists", "createFolder", "create", "final"}

\* the preset holds no exclusion pattern
NoExclusions(preset) ==
  /\ preset.excludeFromFilenames = <<>> /\ preset.excludeFromGlobs = <<>>
  /\ preset.excludeToFilenames = <<>> /\ preset.excludeToGlobs = <<>>

\* the notes run r scans, its own report note left out, are those of the
\* read-me scenario, and the report is the frequency-sorted one of all targets
ScenarioRun(r) ==
  /\ SelectSeq(files, LAMBDA f : f.path # runs[r].outputPath) = ScenarioVault
  /\ ~runs[r].preset.sortAlphabetically
  /\ ~runs[r].preset.nonexistentOnly
  /\ NoExclusions(runs[r].preset)

\* the name and the count of every row
RowsOf(sortedLinks) ==
  [i \in 1..Len(sortedLinks) |-> <<sortedLinks[i].displayName, sortedLinks[i].count>>]

(* C5: the frequency-sorted report of the scenario {A links to B and C, B   *)
(* to C, C to B and to the missing X} has three data rows: B 2, C 2, X 1.   *)
C5_Scenario ==
  \A r \in Runs :
    Rendered(r) /\ ScenarioRun(r) =>
      /\ RowsOf(runs[r].sortedLinks) = << <<<<"B">>, 2>>, <<<<"C">>, 2>>, <<<<"X">>, 1>> >>
      /\ DataRows(runs[r].content) = 3

\* the scenario's report is made
C5_Witness == \E r \in Runs : Rendered(r) /\ ScenarioRun(r)

(* C6: folding a reference leaves the map as it is if and only if the       *)
(* reference resolves and nonexistentOnly is on or the filter excludes its  *)
(* target; and in nonexistentOnly mode no entry is an existing note.        *)
(* Stated for presets with valid patterns.                                  *)
C6_DiscardRule ==
  [][\A r \in Runs :
       /\ Folds(r) /\ ValidPatterns(runs[r].preset) /\ CurrentRef(r).link # <<>> =>
            (runs'[r].uniqueLinks = runs[r].uniqueLinks
               <=> TargetDiscards(CurrentRef(r), runs[r].preset))
       /\ runs[r].preset.nonexistentOnly =>
            \A i \in 1..Len(runs[r].uniqueLinks), k \in 1..Len(files) :
              runs[r].uniqueLinks[i].key # toLowerCase(files[k].path)]_vars

(* C7: the map changes only while a reference of a note is folded that the  *)
(* filter does not exclude as a source: the references of an excluded note  *)
(* never reach the map.                                                     *)
C7_SourceExclusion ==
  [][\A r \in Runs :
       runs'[r].uniqueLinks # runs[r].uniqueLinks =>
         /\ Folding(r)
         /\ ~FilterExcludes(CurrentFile(r), runs[r].preset.excludeFromFilenames,
                            runs[r].preset.excludeFromGlobs)]_vars

\* a scan went past a note with references that a from-pattern excludes,
\* and counted references of other notes
C7_Witness ==
  \E r \in Runs, i \in 1..Len(files) :
    /\ Scanned(r)
    /\ runs[r].uniqueLinks # <<>>
    /\ files[i].links # <<>>
    /\ \E k \in 1..Len(runs[r].preset.excludeFromFilenames) :
         /\ ~RegExpThrows(runs[r].preset.excludeFromFilenames[k])
         /\ RegExpTest(runs[r].preset.excludeFromFilenames[k], files[i].name)

\* rows i and i + 1 are in the order of the preset's sort mode
InOrder(a, b, preset) ==
  IF preset.sortAlphabetically
  THEN localeCompare(toLowerCase(a.displayName), toLowerCase(b.displayName)) <= 0
  ELSE a.count >= b.count

(* C8: the rows are in order (by name without regard to case, or by count   *)
(* from high to low) and are a permutation of the map's entries.            *)
C8_SortedPermutation ==
  \A r \in Runs :
    Rendered(r) =>
      LET rows == runs[r].sortedLinks
          m    == runs[r].uniqueLinks
      IN  /\ \A i \in 1..(Len(rows) - 1) : InOrder(rows[i], rows[i + 1], runs[r].preset)
          /\ Len(rows) = Len(m)
          /\ \A i \in 1..Len(m) : \E j \in 1..Len(rows) : rows[j] = m[i]
          /\ DataRows(runs[r].content) = Len(m)

\* a report of three rows or more that the sort has put in another order
\* than the map's
C8_Witness ==
  \E r \in Runs :
    /\ Rendered(r)
    /\ Len(runs[r].sortedLinks) >= 3
    /\ runs[r].sortedLinks # runs[r].uniqueLinks

\* two entries tie on the sort key of the preset
Tie(a, b, preset) ==
  IF preset.sortAlphabetically
  THEN toLowerCase(a.displayName) = toLowerCase(b.displayName)
  ELSE a.count = b.count

(* C9: rows that tie on the sort key are in the order in which their        *)
(* entries were created.                                                    *)
C9_TiesInCreationOrder ==
  \A r \in Runs :
    Rendered(r) =>
      LET rows == runs[r].sortedLinks
          m    == runs[r].uniqueLinks
      IN  \A i, j \in 1..Len(rows) :
            i < j /\ Tie(rows[i], rows[j], runs[r].preset) =>
              OwnIndex(m, rows[i].key) < OwnIndex(m, rows[j].key)

\* the calls of isExcluded the runs are about to make: for the note the
\* loop is at, with the from-patterns, and for the resolved target of the
\* reference being folded, with the to-patterns
Calls ==
  {<<files[runs[r].fi], runs[r].preset.excludeFromFilenames,
     runs[r].preset.excludeFromGlobs>> :
     r \in {q \in Runs : /\ runs[q].pc = "file"
                         /\ runs[q].fi <= Len(files)
                         /\ files[runs[q].fi].path # runs[q].outputPath}}
  \cup
  {<<Target(CurrentRef(r)), runs[r].preset.excludeToFilenames,
     runs[r].preset.excludeToGlobs>> :
     r \in {q \in Runs : /\ Folding(q)
                         /\ Resolved(CurrentRef(q))
                         /\ ~runs[q].preset.nonexistentOnly}}

(* C10, as claimed: isExcluded returns true if and only if the path is in   *)
(* the global exclusion list, or a filename pattern matches the name, or a  *)
(* glob matches the path; it returns false when both lists are empty and    *)
(* the path is not in the global list.                                      *)
C10_ExcludedIffAnyRule ==
  \A c \in Calls :
    LET res == isExcluded(globalExcludes, c[1], c[2], c[3])
    IN  /\ (~res.threw /\ res.value) <=> FilterExcludes(c[1], c[2], c[3])
        /\ (/\ c[2] = <<>> /\ c[3] = <<>>
            /\ \A k \in 1..Len(globalExcludes) : ~pathEqual(globalExcludes[k], c[1].path))
           => ~res.threw /\ ~res.value

----------------------------------------------------------------------------
(* The reference parser (C11, C12).                                         *)

\* the reference text under parse is the text of an embed
IsEmbed == token # <<>> /\ Head(token) = "!"

\* the text between the brackets of the reference text under parse
Body == IF IsEmbed THEN Slice(token, 4, Len(token) - 2) ELSE Slice(token, 3, Len(token) - 2)

\* a text with no '|', no bracket, no leading '!' and no white space at
\* either end
Plain(t) ==
  /\ \A i \in 1..Len(t) : t[i] \notin {"|", "[", "]"}
  /\ t # <<>> => /\ t[1] # "!"
                 /\ t[1] \notin WhiteSpace
                 /\ t[Len(t)] \notin WhiteSpace

\* the places of the alias separators in the body
Separators == {i \in 1..Len(Body) : Body[i] = "|"}

(* C11: for a target text T and an alias text A that are plain, parsing     *)
(* [[T|A]] gives the display name T and the alias A, and parsing [[T]]      *)
(* gives the display name T and no alias.                                   *)
C11_AliasRoundTrip ==
  ~IsEmbed =>
    /\ \A i \in Separators :
         LET T == Slice(Body, 1, i - 1)
             A == Slice(Body, i + 1, Len(Body))
         IN  Plain(T) /\ Plain(A) =>
               /\ parse.displayName # NotParsed => parse.displayName = T
               /\ parse.alias # NotParsed => parse.alias = A
    /\ Plain(Body) =>
         /\ parse.displayName # NotParsed => parse.displayName = Body
         /\ parse.alias # NotParsed => parse.alias = Null

\* both extractors have run on an aliased text [[T|A]] with T and A plain and
\* not empty
C11_Witness ==
  /\ ~IsEmbed
  /\ parse.displayName # NotParsed
  /\ parse.alias \notin {NotParsed, Null, <<>>}
  /\ \E i \in Separators :
       /\ Plain(Slice(Body, 1, i - 1)) /\ Slice(Body, 1, i - 1) # <<>>
       /\ Plain(Slice(Body, i + 1, Len(Body)))

(* C12: when the text has more than one '|', only the first splits it: the  *)
(* display name is the trimmed text before the first '|' and the alias is   *)
(* the trimmed text of everything after it, further '|' included.           *)
C12_FirstSeparatorSplits ==
  (~IsEmbed /\ Cardinality(Separators) > 1 /\ Body[1] # "!") =>
    LET first == CHOOSE i \in Separators : \A j \in Separators : i <= j
    IN  /\ parse.displayName # NotParsed =>
             parse.displayName = trim(Slice(Body, 1, first - 1))
        /\ parse.alias # NotParsed =>
             parse.alias = trim(Slice(Body, first + 1, Len(Body)))

----------------------------------------------------------------------------
(* The connected terms (C13).                                               *)

\* the third cell of data row i of a report
ThirdColumn(content, i) ==
  LET line == split(content, "\n")[i + 2]
      cell == split(line, "|")[4]
  IN  Slice(cell, 2, Len(cell) - 1)

\* the aliases of the stored reference texts of an entry that are not empty
\* and are not the entry's display name
TermsOf(node) ==
  {extractAlias(node.originalLinks[i]) : i \in 1..Len(node.originalLinks)}
  \ {Null, <<>>, node.displayName}

\* the sequences that list every element of a set once
Listings(S) == {q \in SeqsUpTo(S, Cardinality(S)) : Range(q) = S}

----------------------------------------------------------------------------
(* The Link column (C14).                                                   *)

\* the step taken is run r creating an entry for its current reference
Creates(r) ==
  /\ Folds(r)
  /\ Len(runs'[r].uniqueLinks) = Len(runs[r].uniqueLinks) + 1

\* the entry a creating step appends
Created(r) == runs'[r].uniqueLinks[Len(runs'[r].uniqueLinks)]

\* the shortest link text of the note a reference resolves to
ShortestLinkText(l) == fileToLinktext(files, Target(l))

\* no step of the scan changes the link of an entry that is there
LinksKept(r) ==
  Scanning(r) =>
    \A k \in 1..Len(runs[r].uniqueLinks) :
      /\ k <= Len(runs'[r].uniqueLinks)
      /\ runs'[r].uniqueLinks[k].link = runs[r].uniqueLinks[k].link

(* C14, as claimed: the link of a new entry is [[shortest link text]] when  *)
(* the target resolves and linkToFiles is on, the shortest link text when   *)
(* it resolves and linkToFiles is off, and the raw link path without        *)
(* brackets when the target does not resolve, whatever linkToFiles is; no   *)
(* later occurrence changes it.                                             *)
C14_LinkColumn ==
  [][\A r \in Runs :
       /\ Creates(r) =>
            Created(r).link =
              IF Resolved(CurrentRef(r))
              THEN IF runs[r].preset.linkToFiles
                   THEN Wiki(ShortestLinkText(CurrentRef(r)))
                   ELSE ShortestLinkText(CurrentRef(r))
              ELSE getLinkpath(CurrentRef(r).link)
       /\ LinksKept(r)]_vars

(* C14, amended: as claimed for a target that resolves; when the target     *)
(* does not resolve the link is the raw link path, in brackets when         *)
(* linkToFiles is on and without them when it is off; no later occurrence   *)
(* changes it.                                                              *)
C14_LinkColumnBracketsUnresolved ==
  [][\A r \in Runs :
       /\ Creates(r) =>
            LET text == IF Resolved(CurrentRef(r))
                        THEN ShortestLinkText(CurrentRef(r))
                        ELSE getLinkpath(CurrentRef(r).link)
            IN  Created(r).link =
                  IF runs[r].preset.linkToFiles THEN Wiki(text) ELSE text
       /\ LinksKept(r)]_vars

\* a scan with linkToFiles on holds an entry of a target that does not
\* resolve, and an entry of a note that later occurrences have counted again
C14_Witness ==
  \E r \in Runs :
    /\ Rendered(r)
    /\ runs[r].preset.linkToFiles
    /\ \E i, j \in 1..Len(runs[r].uniqueLinks) :
         /\ \A k \in 1..Len(files) :
              toLowerCase(files[k].path) # runs[r].uniqueLinks[i].key
         /\ runs[r].uniqueLinks[j].count > 1
         /\ \E k \in 1..Len(files) :
              toLowerCase(files[k].path) = runs[r].uniqueLinks[j].key

----------------------------------------------------------------------------
(* Links and embeds (C15).                                                  *)

\* the vault with every embed reference removed
WithoutEmbeds(fs) == [i \in DOMAIN fs |-> [fs[i] EXCEPT !.embeds = <<>>]]

\* the references folded one after the other, up to the first that throws
RECURSIVE FoldRefs(_, _, _)
FoldRefs(m, refs, preset) ==
  IF refs = <<>> THEN m
  ELSE LET g == GrabLink(m, files, globalExcludes, Head(refs), preset)
       IN  IF g.threw THEN m ELSE FoldRefs(g.map, Tail(refs), preset)

\* a fold of the references stops at one that throws
Throws(m, refs, preset) ==
  \E n \in 1..Len(refs) :
    GrabLink(FoldRefs(m, Slice(refs, 1, n - 1), preset), files, globalExcludes,
             refs[n], preset).threw

\* the map after the first n notes of a vault, the links and then the embeds
\* of every note that is a source being folded
RECURSIVE MapAfter(_, _, _)
MapAfter(fs, n, preset) ==
  IF n = 0 THEN <<>>
  ELSE LET m  == MapAfter(fs, n - 1, preset)
           f  == fs[n]
           ex == isExcluded(globalExcludes, f, preset.excludeFromFilenames,
                            preset.excludeFromGlobs)
       IN  IF f.path = OutputPath(preset.path) \/ ex.threw \/ ex.value THEN m
           ELSE IF Throws(m, f.links, preset) THEN FoldRefs(m, f.links, preset)
           ELSE FoldRefs(FoldRefs(m, f.links, preset), f.embeds, preset)

\* the report of a vault of which links and embeds are both aggregated
ReportOf(fs, preset) == Content(SortLinks(MapAfter(fs, Len(fs), preset), preset))

----------------------------------------------------------------------------
(* Errors of single notes (C17).                                            *)

\* the references of a note that a preset has folded, in the order of the fold
RefsOf(f, preset) == f.links \o (IF preset.includeEmbeds THEN f.embeds ELSE <<>>)

\* the map after the first n notes when a note that raises an error is
\* skipped, none of its references being counted
RECURSIVE MapSkipping(_, _)
MapSkipping(n, preset) ==
  IF n = 0 THEN <<>>
  ELSE LET m  == MapSkipping(n - 1, preset)
           f  == files[n]
           ex == isExcluded(globalExcludes, f, preset.excludeFromFilenames,
                            preset.excludeFromGlobs)
       IN  IF f.path = OutputPath(preset.path) \/ ex.threw \/ ex.value THEN m
           ELSE IF Throws(m, RefsOf(f, preset), preset) THEN m
           ELSE FoldRefs(m, RefsOf(f, preset), preset)

\* the run has written its report and has not returned yet
Written(r) == runs[r].pc = "final"

\* the run has returned after its preset was found
Returned(r) == runs[r].pc = "done" /\ runs[r].preset # NoPreset

(* C17: an error of one note is caught and counted, the note is skipped,    *)
(* the notes after it are processed, and the report is rendered and         *)
(* written: every note is accounted for, the map is that of the notes that  *)
(* raise no error, the report is in the vault once the run has written, and *)
(* no run ends in an error.                                                 *)
C17_PerNoteErrors ==
  \A r \in Runs :
    /\ Scanned(r) =>
         /\ runs[r].processedCount + runs[r].skippedCount + runs[r].errorCount
              = Len(files)
         /\ runs[r].uniqueLinks = MapSkipping(Len(files), runs[r].preset)
    /\ Written(r) =>
         /\ FileIndex(files, runs[r].outputPath) # 0
         /\ files[FileIndex(files, runs[r].outputPath)].links
              = ParseLinks(runs[r].content)
    /\ Returned(r) =>
         \A k \in 1..Len(notices) :
           notices[k] \notin {"Error writing to file", "Error generating index"}

----------------------------------------------------------------------------
(* A command whose preset is gone (C16).                                    *)

\* the step taken is the callback of a command being called for run r
Invoked(r) == runs[r].pc = "idle" /\ runs'[r].pc # "idle"

\* the name the callback of run r looks up
RequestedName(r) ==
  objectNames[(CHOOSE c \in commands : c.id = runs'[r].command).preset]

(* C16: when a command is invoked and no preset of the settings has the     *)
(* requested name, the invocation ends at once with the notice 'Preset not  *)
(* found': no note is scanned, nothing is asked of or written to the file   *)
(* system, and no other notice is shown.                                    *)
C16_PresetNotFound ==
  [][\A r \in Runs :
       (Invoked(r) /\ \A i \in 1..Len(settings) : settings[i].name # RequestedName(r))
       => /\ runs'[r] = [IdleRun EXCEPT !.pc = "done", !.command = runs'[r].command]
          /\ notices' = Append(notices, "Preset not found")
          /\ files' = files
          /\ folders' = folders]_vars

\* a command of a deleted preset has been invoked and has found no preset
C16_Witness ==
  \E r \in Runs :
    /\ runs[r].pc = "done"
    /\ runs[r].preset = NoPreset
    /\ runs[r].command # <<>>
    /\ \A i \in 1..Len(settings) : CommandId(settings[i].name) # runs[r].command

----------------------------------------------------------------------------
(* The registered commands (C18) and the preset names (C19).                *)

(* C18: the registered commands are one command per preset of the settings, *)
(* with the id and the name made from that preset's name, and no other.     *)
C18_OneCommandPerPreset ==
  /\ Cardinality(commands) = Len(settings)
  /\ \A i \in 1..Len(settings) :
       \E c \in commands : /\ c.id = CommandId(settings[i].name)
                           /\ c.name = CommandName(settings[i].name)
                           /\ c.preset = presetRefs[i]
  /\ \A c \in commands :
       \E i \in 1..Len(settings) : c.id = CommandId(settings[i].name)

(* C19: no two presets of the settings have the same name, and the lookup   *)
(* by a preset's name returns that preset.                                  *)
C19_NamesUnique ==
  /\ \A i, j \in 1..Len(settings) : settings[i].name = settings[j].name => i = j
  /\ \A i \in 1..Len(settings) :
       getPresetByName(settings, settings[i].name) = settings[i]

----------------------------------------------------------------------------
(* The global exclusion list (C20).                                         *)

\* the output paths of the presets of the settings
OutputPaths == {OutputPath(settings[i].path) : i \in 1..Len(settings)}

\* the step taken is run r counting its current reference
Counts(r) == Folding(r) /\ runs'[r].uniqueLinks # runs[r].uniqueLinks

----------------------------------------------------------------------------
(* Path equality (C21).                                                     *)

\* the two paths are the same but for the case of some letters
DifferInCase(a, b) == a # b /\ toLowerCase(a) = toLowerCase(b)

(* C21: pathEqual is reflexive and symmetric; a path written with           *)
(* backslashes, with a leading './' or with any number of '/./' segments    *)
(* inserted at its separators is path-equal to the path; two paths that     *)
(* differ in letter case are not path-equal.                                *)
C21_PathEqual ==
  /\ compare.ab # <<>> =>
       /\ compare.a = compare.b => compare.ab[1]
       /\ compare.b \in Rewritten(compare.a, MaxRewrites) => compare.ab[1]
       /\ DifferInCase(compare.a, compare.b) => ~compare.ab[1]
  /\ (compare.ab # <<>> /\ compare.ba # <<>>) => compare.ab = compare.ba

----------------------------------------------------------------------------
(* Embed tokens (C22).                                                      *)

(* C22: for an embed token ![[T]] or ![[T|A]] with T and A plain, the       *)
(* display name is T, which is the display name of the plain link [[T]] or  *)
(* [[T|A]], and the alias is A, or absent for ![[T]].                       *)
C22_EmbedToken ==
  IsEmbed =>
    /\ \A i \in Separators :
         LET T == Slice(Body, 1, i - 1)
             A == Slice(Body, i + 1, Len(Body))
         IN  Plain(T) /\ Plain(A) =>
               /\ parse.displayName # NotParsed =>
                    /\ parse.displayName = T
                    /\ parse.displayName = extractDisplayName(Wiki(Body))
               /\ parse.alias # NotParsed => parse.alias = A
    /\ Plain(Body) =>
         /\ parse.displayName # NotParsed =>
              /\ parse.displayName = Body
              /\ parse.displayName = extractDisplayName(Wiki(Body))
         /\ parse.alias # NotParsed => parse.alias = Null

----------------------------------------------------------------------------
(* Concurrent report generations (C23).                                     *)

\* run r waits at an await of the file operations
Awaiting(r) ==
  runs[r].pc \in {"exists", "write", "dirExists", "createFolder", "create", "final"}

\* the report a call for the preset alone makes of the vault as it is
AloneReport(preset) ==
  IF preset.includeEmbeds
  THEN ReportOf(files, preset)
  ELSE ReportOf(WithoutEmbeds(files), preset)

\* the step in which run r ends its scan and renders its report
Renders(r) == runs[r].pc = "file" /\ runs'[r].pc = "exists"

\* the step in which run r writes its report
Writes(r) == runs[r].pc \in {"write", "create"} /\ runs'[r].pc = "final"

(* C23: when report generations interleave at their awaits, the report a    *)
(* run renders at the end of its scan is the report a call for its preset   *)
(* alone makes of the vault it scanned; the run keeps that report and its   *)
(* map while it waits, and writes that report to its own output path; a     *)
(* step of one run changes nothing of another run; and no step of a run     *)
(* changes the presets or the global exclusion list.                        *)
C23_OwnAggregationMap ==
  [][/\ \A r \in Runs :
          /\ Renders(r) => runs'[r].content = AloneReport(runs[r].preset)
          /\ Awaiting(r) =>
               /\ runs'[r].content = runs[r].content
               /\ runs'[r].uniqueLinks = runs[r].uniqueLinks
          /\ Writes(r) =>
               files' = WithReport(files, runs[r].outputPath, runs[r].content)
          /\ runs'[r] # runs[r] => \A q \in Runs \ {r} : runs'[q] = runs[q]
      /\ settings' = settings
      /\ globalExcludes' = globalExcludes]_vars

\* a run for one preset has scanned and written its report while an earlier
\* run for another preset, with another output path, waits at an await, and
\* both reports have rows
C23_Witness ==
  \E q \in Runs, r \in Runs :
    /\ q < r
    /\ Awaiting(q) /\ runs[q].pc # "final"
    /\ runs[r].pc = "final"
    /\ runs[q].preset.name # runs[r].preset.name
    /\ runs[q].outputPath # runs[r].outputPath
    /\ runs[q].sortedLinks # <<>>
    /\ runs[r].sortedLinks # <<>>

=============================================================================
